---- MODULE Spec2Model ----
(***************************************************************************)
(* alice-lg: configuration loading (backend/config.go), the lazy source    *)
(* registry (SourceConfig.getInstance) and the BioRIS gRPC adapter         *)
(* (backend/sources/bioris/source.go).                                     *)
(*                                                                         *)
(* Go strings are sequences of one-character strings, so that Split,       *)
(* SplitN, HasPrefix, HasSuffix and TrimSpace are computed the way the     *)
(* code computes them.                                                     *)
(***************************************************************************)
EXTENDS Integers, Sequences, FiniteSets, TLC

VARIABLES
    cfgIn,        \* the parsed ini file handed to loadConfig
    cfgOut,       \* what loadConfig produced (NotLoaded before the call)
    config,       \* the loaded Config the registry works on
    instance,     \* SourceConfig.instance, per source index (0 = nil)
    constructed,  \* how often the backend constructor ran, per source index
    heap,         \* the backend objects allocated so far, by object id
    pc,           \* per caller: position inside SourceInstanceById/getInstance
    arg,          \* per caller: index of the descriptor SourceById found
    loc,          \* per caller: the local variable `instance` of getInstance
    calls,        \* log of completed SourceInstanceById calls
    grpcConn,     \* BioRIS.grpcConn: handle id, 0 = nil
    conns,        \* every handle grpc.Dial returned: its connectivity state
    dialed,       \* number of grpc.Dial calls made so far
    risOps,       \* number of adapter operations completed
    risLast,      \* the last adapter operation and what it returned
    opPc,         \* per caller: position inside an adapter operation
    frame,        \* per caller: the locals conn and risclient (handle ids)
    rtIn,         \* what the remote RIS serves: the two DumpRIB streams
    nbIn          \* what the remote RIS serves: the peers of GetNeighbors

loadVars == <<cfgIn, cfgOut>>
regVars  == <<config, instance, constructed, heap, pc, arg, loc, calls>>
callVars == <<opPc, frame>>
risVars  == <<grpcConn, conns, dialed, risOps, risLast, opPc, frame>>
rtVars   == <<rtIn, nbIn>>
vars     == <<cfgIn, cfgOut, config, instance, constructed,
              heap, pc, arg, loc, calls, grpcConn, conns, dialed, risOps,
              risLast, opPc, frame, rtIn, nbIn>>

NotLoaded == [kind |-> "none"]

(***************************************************************************)
(* Bounds of the model.                                                    *)
(***************************************************************************)
MaxSections == 4   \* sections in the ini file's section list
MaxStrLen   == 7   \* length of the configured rpki.invalid value
MaxLines    == 3   \* lines in the bgp_communities body
MaxCalls    == 4   \* SourceInstanceById calls, completed or under way
NumCallers  == 2   \* callers of the registry
MaxDials    == 2   \* grpc.Dial calls on one adapter
MaxOps      == 3   \* adapter operations on one adapter
MaxRecv     == 3   \* messages the two DumpRIB streams deliver in total
MaxPeers    == 2   \* peers in one reply to GetNeighbors

(***************************************************************************)
(* Go's strings package.                                                   *)
(***************************************************************************)
HasPrefix(s, p) ==
    /\ Len(p) <= Len(s)
    /\ SubSeq(s, 1, Len(p)) = p

HasSuffix(s, p) ==
    /\ Len(p) <= Len(s)
    /\ SubSeq(s, Len(s) - Len(p) + 1, Len(s)) = p

\* strings.Index for a one-character separator; 0 when absent.
IndexOf(s, c) ==
    IF \E i \in 1..Len(s) : s[i] = c
    THEN CHOOSE i \in 1..Len(s) : s[i] = c /\ \A j \in 1..(i - 1) : s[j] # c
    ELSE 0

\* strings.SplitN(s, c, n): n = 0 gives nothing, n < 0 gives every part.
RECURSIVE SplitN(_, _, _)
SplitN(s, c, n) ==
    IF n = 0 THEN <<>>
    ELSE IF n = 1 THEN <<s>>
    ELSE LET i == IndexOf(s, c) IN
         IF i = 0 THEN <<s>>
         ELSE <<SubSeq(s, 1, i - 1)>>
                  \o SplitN(SubSeq(s, i + 1, Len(s)), c, IF n < 0 THEN n ELSE n - 1)

Split(s, c) == SplitN(s, c, -1)

IsSpace(c) == c \in {" ", "\t", "\n", "\r"}

RECURSIVE TrimLeft(_)
TrimLeft(s) ==
    IF s # <<>> /\ IsSpace(Head(s)) THEN TrimLeft(Tail(s)) ELSE s

RECURSIVE TrimRight(_)
TrimRight(s) ==
    IF s # <<>> /\ IsSpace(s[Len(s)]) THEN TrimRight(SubSeq(s, 1, Len(s) - 1)) ELSE s

TrimSpace(s) == TrimRight(TrimLeft(s))

Digit(d) == <<"0", "1", "2", "3", "4", "5", "6", "7", "8", "9">>[d + 1]

\* fmt.Sprintf("%d", n)
RECURSIVE SprintfD(_)
SprintfD(n) ==
    IF n < 0 THEN <<"-">> \o SprintfD(0 - n)
    ELSE IF n < 10 THEN <<Digit(n)>>
    ELSE SprintfD(n \div 10) \o <<Digit(n % 10)>>

(***************************************************************************)
(* Literals of the source.                                                 *)
(***************************************************************************)
S_source      == <<"s", "o", "u", "r", "c", "e">>
S_birdwatcher == <<"b", "i", "r", "d", "w", "a", "t", "c", "h", "e", "r">>
S_gobgp       == <<"g", "o", "b", "g", "p">>
S_bioris      == <<"b", "i", "o", "r", "i", "s">>
S_single      == <<"s", "i", "n", "g", "l", "e", "_", "t", "a", "b", "l", "e">>
S_multi       == <<"m", "u", "l", "t", "i", "_", "t", "a", "b", "l", "e">>
S_1000        == <<"1", "0", "0", "0">>

SOURCE_UNKNOWN     == 0
SOURCE_BIRDWATCHER == 1
SOURCE_GOBGP       == 2
SOURCE_BIORIS      == 3

(***************************************************************************)
(* The parsed ini file (go-ini): an ordered section list; a section is its *)
(* name and its keys.                                                      *)
(***************************************************************************)
\* Key(k).MustString(def): the default stands in for a missing or empty key.
MustString(section, k, def) ==
    IF k \in DOMAIN section.keys /\ section.keys[k] # <<>>
    THEN section.keys[k]
    ELSE def

\* Section.ChildSections(): every section whose name starts with name + "."
ChildSections(sections, name) ==
    SelectSeq(sections, LAMBDA s : HasPrefix(s.name, name \o <<".">>))

isSourceBase(section) == Len(Split(section.name, ".")) = 2

getBackendType_noBioris(section) ==
    IF HasSuffix(section.name, S_birdwatcher) THEN SOURCE_BIRDWATCHER
    ELSE IF HasSuffix(section.name, S_gobgp) THEN SOURCE_GOBGP
    ELSE SOURCE_UNKNOWN

getBackendType(section) ==
    IF HasSuffix(section.name, S_birdwatcher) THEN SOURCE_BIRDWATCHER
    ELSE IF HasSuffix(section.name, S_gobgp) THEN SOURCE_GOBGP
    ELSE IF HasSuffix(section.name, S_bioris) THEN SOURCE_BIORIS
    ELSE SOURCE_UNKNOWN

NoPayload == [Id |-> <<>>]

\* The birdwatcher branch of the backend switch: log.Fatal on an unknown type.
birdwatcherTypeOk(sourceType) == sourceType = S_single \/ sourceType = S_multi

birdwatcherConfig(id, name, backendConfig) ==
    [Id                 |-> id,
     Name               |-> name,
     Type               |-> MustString(backendConfig, "type", <<>>),
     PeerTablePrefix    |-> MustString(backendConfig, "peer_table_prefix", <<"T">>),
     PipeProtocolPrefix |-> MustString(backendConfig, "pipe_protocol_prefix", <<"M">>)]

\* len(sourceConfigSections) == 0: the source has no configured backend.
noBackend(sourceConfigSections) == Len(sourceConfigSections) = 0

ambiguousBackends_never(sourceConfigSections) == FALSE

\* len(sourceConfigSections) > 1: the source is ambiguous.
ambiguousBackends(sourceConfigSections) == Len(sourceConfigSections) > 1

\* One iteration of the loop of getSources over a source base section:
\* "error" (returned error), "fatal" (log.Fatal: the process exits) or
\* "ok" with the descriptor.
makeSource(sections, section, order) ==
    LET sourceId == SubSeq(section.name, Len(S_source) + 2, Len(section.name))
        sourceConfigSections == ChildSections(sections, section.name)
        backendConfig == sourceConfigSections[1]
        backendType == getBackendType(backendConfig)
        sourceName == MustString(section, "name",
                          <<"U", "n", "k", "n", "o", "w", "n", " ",
                            "S", "o", "u", "r", "c", "e">>)
        base == [Id |-> sourceId, Order |-> order, Name |-> sourceName,
                 Type |-> backendType, Birdwatcher |-> NoPayload,
                 GoBGP |-> NoPayload, BioRIS |-> NoPayload]
    IN  IF noBackend(sourceConfigSections)
        THEN [kind |-> "error", msg |-> "has no backend configuration",
              section |-> section.name]
        ELSE IF ambiguousBackends(sourceConfigSections)
        THEN [kind |-> "error", msg |-> "has ambigous backends",
              section |-> section.name]
        ELSE IF backendType = SOURCE_UNKNOWN
        THEN [kind |-> "error", msg |-> "has an unsupported backend",
              section |-> section.name]
        ELSE IF backendType = SOURCE_BIRDWATCHER
        THEN IF ~birdwatcherTypeOk(MustString(backendConfig, "type", <<>>))
             THEN [kind |-> "fatal",
                   msg |-> "unknown birdwatcher type",
                   section |-> section.name]
             ELSE [kind |-> "ok",
                   source |-> [base EXCEPT !.Birdwatcher =
                       birdwatcherConfig(sourceId, sourceName, backendConfig)]]
        ELSE IF backendType = SOURCE_GOBGP
        THEN [kind |-> "ok",
              source |-> [base EXCEPT !.GoBGP =
                             [Id |-> sourceId, Name |-> sourceName]]]
        ELSE [kind |-> "ok",
              source |-> [base EXCEPT !.BioRIS =
                             [Id |-> sourceId, Name |-> sourceName]]]

\* The loop of getSources from position i of config.ChildSections("source").
RECURSIVE getSourcesFrom(_, _, _, _)
getSourcesFrom(sections, sourceSections, i, sources) ==
    IF i > Len(sourceSections)
    THEN [kind |-> "ok", sources |-> sources]
    ELSE IF ~isSourceBase(sourceSections[i])
    THEN getSourcesFrom(sections, sourceSections, i + 1, sources)
    ELSE LET r == makeSource(sections, sourceSections[i], Len(sources)) IN
         IF r.kind = "ok"
         THEN getSourcesFrom(sections, sourceSections, i + 1,
                             Append(sources, r.source))
         ELSE [kind |-> r.kind, sources |-> sources,
               msg |-> r.msg, section |-> r.section]

getSources(sections) ==
    getSourcesFrom(sections, ChildSections(sections, S_source), 1, <<>>)

(***************************************************************************)
(* RPKI configuration.                                                     *)
(***************************************************************************)
\* Key("asn").MustInt(-1): the default stands in for a missing key.
MustInt(key, def) == IF key.set THEN key.val ELSE def

getOwnASN(in) ==
    LET asn == MustInt(in.asn, -1) IN
    IF asn = -1
    THEN [asn |-> 0, err |-> TRUE]
    ELSE [asn |-> asn, err |-> FALSE]

\* rpki.X = []string{ownAsn, "1000", tag} or strings.SplitN(rpki.X[0], ":", 3)
rpkiTriplet(configured, ownAsn, tag) ==
    IF Len(configured) = 0
    THEN <<ownAsn, S_1000, <<tag>>>>
    ELSE SplitN(configured[1], ":", 3)

rpkiInvalidTokens_unsplit(parts) == <<parts[3]>>

\* The else branch of the rpki.Invalid block, after the length check.
rpkiInvalidTokens(parts) == Split(parts[3], "-")

\* in.rpki is the RpkiConfig as section.MapTo left it: a key that is not
\* configured is an empty list.
getRpkiConfig(in) ==
    LET rpki == in.rpki
        ownAsn == SprintfD(getOwnASN(in).asn)
        valid == rpkiTriplet(rpki.Valid, ownAsn, "1")
        unknown == rpkiTriplet(rpki.Unknown, ownAsn, "2")
        notChecked == rpkiTriplet(rpki.NotChecked, ownAsn, "3")
        parts == SplitN(rpki.Invalid[1], ":", 3)
        done == [Enabled |-> rpki.Enabled, Valid |-> valid, Unknown |-> unknown,
                 NotChecked |-> notChecked, Invalid |-> <<>>]
    IN  IF Len(rpki.Invalid) = 0
        THEN [kind |-> "ok",
              rpki |-> [done EXCEPT !.Invalid = <<ownAsn, S_1000, <<"4">>, <<"*">>>>]]
        ELSE IF Len(parts) # 3
        THEN [kind |-> "error", msg |-> "Unexpected rpki.Invalid configuration",
              rpki |-> [done EXCEPT !.Invalid = parts]]
        ELSE [kind |-> "ok",
              rpki |-> [done EXCEPT !.Invalid =
                           <<parts[1], parts[2]>> \o rpkiInvalidTokens(parts)]]

(***************************************************************************)
(* BGP communities.  BgpCommunities is a mapping from a community key to   *)
(* its label.                                                              *)
(***************************************************************************)
C_graceful  == <<"6", "5", "5", "3", "5", ":", "0">>
C_blackhole == <<"6", "5", "5", "3", "5", ":", "6", "6", "6">>
L_graceful  == <<"g", "r", "a", "c", "e", "f", "u", "l", " ",
                 "s", "h", "u", "t", "d", "o", "w", "n">>
L_blackhole == <<"b", "l", "a", "c", "k", "h", "o", "l", "e">>

MakeWellKnownBgpCommunities ==
    [k \in {C_graceful, C_blackhole} |->
        IF k = C_graceful THEN L_graceful ELSE L_blackhole]

\* BgpCommunities.Set(community, label)
CommunitiesSet(communities, community, label) ==
    [k \in DOMAIN communities \cup {community} |->
        IF k = community THEN label ELSE communities[k]]

mergeLine_keepFirst(communities, line) ==
    LET kv == SplitN(line, "=", 2) IN
    IF Len(kv) # 2 \/ TrimSpace(kv[1]) \in DOMAIN communities
    THEN communities
    ELSE CommunitiesSet(communities, TrimSpace(kv[1]), TrimSpace(kv[2]))

\* The body of the loop of parseAndMergeCommunities for one line.
mergeLine(communities, line) ==
    LET kv == SplitN(line, "=", 2) IN
    IF Len(kv) # 2
    THEN communities
    ELSE CommunitiesSet(communities, TrimSpace(kv[1]), TrimSpace(kv[2]))

RECURSIVE mergeLines(_, _, _)
mergeLines(communities, lines, i) ==
    IF i > Len(lines) THEN communities
    ELSE mergeLines(mergeLine(communities, lines[i]), lines, i + 1)

parseAndMergeCommunities(communities, body) ==
    mergeLines(communities, Split(body, "\n"), 1)

getBgpCommunities(in) ==
    parseAndMergeCommunities(MakeWellKnownBgpCommunities, in.bgp_communities)

(***************************************************************************)
(* getUiConfig and loadConfig.  Of the UiConfig the model keeps the RPKI   *)
(* configuration and the community set; the column, theme and pagination   *)
(* getters return no error.                                                *)
(***************************************************************************)
getUiConfig(in) ==
    LET r == getRpkiConfig(in) IN
    IF r.kind = "error"
    THEN [kind |-> "error", msg |-> r.msg]
    ELSE [kind |-> "ok",
          ui |-> [BgpCommunities |-> getBgpCommunities(in), Rpki |-> r.rpki]]

NoConfig == [Sources |-> <<>>, loaded |-> FALSE]

\* What loadConfig gives its caller: kind "config" (the Config, nil error),
\* "error" (nil, error) or "fatal" (log.Fatal ended the process).  `scan` is
\* what getSources returned to loadConfig, kept for the record.
loadResult(kind, from, msg, section, cfg, scan) ==
    [kind |-> kind, from |-> from, msg |-> msg, section |-> section,
     config |-> cfg, scan |-> scan]

loadConfig(in) ==
    IF in.file = "missing"
    THEN loadResult("error", "getConfigFile",
                    "could not find any configuration file", <<>>, NoConfig, NotLoaded)
    ELSE IF in.file = "unparsable"
    THEN loadResult("error", "ini.LoadSources", "ini", <<>>, NoConfig, NotLoaded)
    ELSE LET s == getSources(in.sections)
             u == getUiConfig(in)
         IN  IF s.kind = "fatal"
             THEN loadResult("fatal", "getSources", s.msg, s.section, NoConfig, s)
             ELSE IF s.kind = "error"
             THEN loadResult("error", "getSources", s.msg, s.section, NoConfig, s)
             ELSE IF u.kind = "error"
             THEN loadResult("error", "getUiConfig", u.msg, <<>>, NoConfig, s)
             ELSE loadResult("config", "loadConfig", "", <<>>,
                             [Sources |-> s.sources, loaded |-> TRUE, Ui |-> u.ui], s)

(***************************************************************************)
(* Configuration files offered to loadConfig.                              *)
(***************************************************************************)
NoKeys == [name |-> <<>>, type |-> <<>>]

Section(name) == [name |-> name, keys |-> NoKeys]

N_a           == S_source \o <<".", "a">>
N_b           == S_source \o <<".", "b">>
N_a_bird      == N_a \o <<".">> \o S_birdwatcher
N_a_gobgp     == N_a \o <<".">> \o S_gobgp
N_b_bioris    == N_b \o <<".">> \o S_bioris
N_b_foo       == N_b \o <<".", "f", "o", "o">>
N_b_xgobgp    == N_b \o <<".", "x">> \o S_gobgp
N_server      == <<"s", "e", "r", "v", "e", "r">>

BirdwatcherTypes == {S_single, S_multi, <<>>, <<"x">>}

SectionPool ==
    {Section(n) : n \in {N_a, N_b, N_a_gobgp, N_b_bioris, N_b_foo,
                         N_b_xgobgp, N_server}}
    \cup {[name |-> N_a_bird, keys |-> [name |-> <<>>, type |-> ty]] :
              ty \in BirdwatcherTypes}

\* Section names are unique in a parsed file.
SectionLists ==
    {l \in UNION {[1..n -> SectionPool] : n \in 0..MaxSections} :
        \A i, j \in 1..Len(l) : i # j => l[i].name # l[j].name}

AsnUnset == [set |-> FALSE, val |-> 0]
Asn(n)   == [set |-> TRUE, val |-> n]

RpkiUnset == [Enabled |-> FALSE, Valid |-> <<>>, Unknown |-> <<>>,
              NotChecked |-> <<>>, Invalid |-> <<>>]

IniFile(file, sections, asn, rpki, body) ==
    [file |-> file, sections |-> sections, asn |-> asn, rpki |-> rpki,
     bgp_communities |-> body]

GoodSections == <<Section(N_a), Section(N_a_gobgp)>>
BadSections  == <<Section(N_a), Section(N_a_gobgp), Section(N_b)>>

\* Source sections vary; nothing else is configured.
SourceInputs ==
    {IniFile("ok", l, AsnUnset, RpkiUnset, <<>>) : l \in SectionLists}
    \cup {IniFile(f, <<>>, AsnUnset, RpkiUnset, <<>>) : f \in {"missing", "unparsable"}}

RpkiAlphabet == {"5", ":", "-"}

RpkiStrings == UNION {[1..n -> RpkiAlphabet] : n \in 1..MaxStrLen}

\* The rpki section and the local ASN vary.
RpkiInputs ==
    {IniFile("ok", l, a, [RpkiUnset EXCEPT !.Invalid = inv], <<>>) :
        l \in {GoodSections, BadSections},
        a \in {AsnUnset, Asn(65000)},
        inv \in {<<>>} \cup {<<s>> : s \in RpkiStrings}}

K_new == <<"9", ":", "9">>

LineKeys  == {C_blackhole, K_new}
LineTails == {<<>>, <<"=">>, <<"=", "x">>, <<"=", " ", "y", " ">>,
              <<"=", "x", "=", "y">>}

LinePool ==
    {<<>>, <<" ">> \o K_new \o <<" ", "=", "z">>}
        \cup {k \o tl : k \in LineKeys, tl \in LineTails}

RECURSIVE JoinLines(_)
JoinLines(lines) ==
    IF Len(lines) = 0 THEN <<>>
    ELSE IF Len(lines) = 1 THEN lines[1]
    ELSE lines[1] \o <<"\n">> \o JoinLines(Tail(lines))

Bodies ==
    {JoinLines(l) : l \in UNION {[1..n -> LinePool] : n \in 0..MaxLines}}

\* The body of the bgp_communities section varies.
CommInputs ==
    {IniFile("ok", GoodSections, AsnUnset, RpkiUnset, b) : b \in Bodies}

(***************************************************************************)
(* Actions.                                                                *)
(***************************************************************************)
LoadConfig ==
    /\ cfgOut = NotLoaded
    /\ cfgOut' = loadConfig(cfgIn)
    /\ UNCHANGED <<cfgIn, regVars, risVars, rtVars>>

ParkLoad == cfgIn = NotLoaded /\ cfgOut = NotLoaded

ParkReg ==
    /\ config = NoConfig
    /\ instance = <<>>
    /\ constructed = <<>>
    /\ heap = <<>>
    /\ pc = <<>>
    /\ arg = <<>>
    /\ loc = <<>>
    /\ calls = <<>>

ParkRis ==
    /\ grpcConn = 0
    /\ conns = <<>>
    /\ dialed = 0
    /\ risOps = 0
    /\ risLast = NotLoaded
    /\ opPc = <<>>
    /\ frame = <<>>

ParkRt == rtIn = NotLoaded /\ nbIn = <<>>

InitSources ==
    /\ cfgIn \in SourceInputs
    /\ cfgOut = NotLoaded
    /\ ParkReg /\ ParkRis /\ ParkRt

InitRpki ==
    /\ cfgIn \in RpkiInputs
    /\ cfgOut = NotLoaded
    /\ ParkReg /\ ParkRis /\ ParkRt

InitComm ==
    /\ cfgIn \in CommInputs
    /\ cfgOut = NotLoaded
    /\ ParkReg /\ ParkRis /\ ParkRt

NextLoad == LoadConfig

SpecSources == InitSources /\ [][NextLoad]_vars

SpecRpki == InitRpki /\ [][NextLoad]_vars

SpecComm == InitComm /\ [][NextLoad]_vars

(***************************************************************************)
(* The registry: Config.SourceById, Config.SourceInstanceById and          *)
(* SourceConfig.getInstance.  A backend object is an entry of `heap`; a    *)
(* reference to it is its index, 0 is nil.                                 *)
(***************************************************************************)
Callers == 1..NumCallers

\* Index of the first descriptor with that id; 0 for nil.
SourceById(sourceId) ==
    IF \E i \in 1..Len(config.Sources) : config.Sources[i].Id = sourceId
    THEN CHOOSE i \in 1..Len(config.Sources) :
             /\ config.Sources[i].Id = sourceId
             /\ \A j \in 1..(i - 1) : config.Sources[j].Id # sourceId
    ELSE 0

hasInstance_never(i) == FALSE

\* self.instance != nil
hasInstance(i) == instance[i] # 0

\* The switch over self.Type: the constructor of the backend, given its payload.
newBackend(source) ==
    IF source.Type = SOURCE_BIRDWATCHER
    THEN [backend |-> "Birdwatcher", config |-> source.Birdwatcher]
    ELSE IF source.Type = SOURCE_GOBGP
    THEN [backend |-> "GoBGP", config |-> source.GoBGP]
    ELSE [backend |-> "BioRIS", config |-> source.BioRIS]

hasConstructor(source) ==
    source.Type \in {SOURCE_BIRDWATCHER, SOURCE_GOBGP, SOURCE_BIORIS}

Returned(c, id, ret) == Append(calls, [caller |-> c, id |-> id, ret |-> ret])

InFlight == Cardinality({c \in Callers : pc[c] # "idle"})

\* One whole call of SourceInstanceById, nothing else running meanwhile.
SourceInstanceById(c, sourceId) ==
    /\ pc[c] = "idle"
    /\ Len(calls) < MaxCalls
    /\ LET i == SourceById(sourceId) IN
       IF i = 0
       THEN /\ calls' = Returned(c, sourceId, 0)
            /\ UNCHANGED <<instance, constructed, heap>>
       ELSE IF hasInstance(i)
       THEN /\ calls' = Returned(c, sourceId, instance[i])
            /\ UNCHANGED <<instance, constructed, heap>>
       ELSE IF hasConstructor(config.Sources[i])
       THEN /\ heap' = Append(heap, newBackend(config.Sources[i]))
            /\ constructed' = [constructed EXCEPT ![i] = @ + 1]
            /\ instance' = [instance EXCEPT ![i] = Len(heap) + 1]
            /\ calls' = Returned(c, sourceId, Len(heap) + 1)
       ELSE /\ calls' = Returned(c, sourceId, 0)
            /\ UNCHANGED <<instance, constructed, heap>>
    /\ UNCHANGED <<config, pc, arg, loc, loadVars, risVars, rtVars>>

\* The same call, step by step, for callers that run at the same time.
\* SourceInstanceById up to the call of getInstance.
CallBegin(c, sourceId) ==
    /\ pc[c] = "idle"
    /\ Len(calls) + InFlight < MaxCalls
    /\ LET i == SourceById(sourceId) IN
       IF i = 0
       THEN /\ calls' = Returned(c, sourceId, 0)
            /\ UNCHANGED <<pc, arg>>
       ELSE /\ pc' = [pc EXCEPT ![c] = "check"]
            /\ arg' = [arg EXCEPT ![c] = [id |-> sourceId, idx |-> i]]
            /\ UNCHANGED calls
    /\ UNCHANGED <<config, instance, constructed, heap, loc, loadVars, risVars, rtVars>>

\* if self.instance != nil { return self.instance }
CallCheck(c) ==
    /\ pc[c] = "check"
    /\ IF hasInstance(arg[c].idx)
       THEN /\ calls' = Returned(c, arg[c].id, instance[arg[c].idx])
            /\ pc' = [pc EXCEPT ![c] = "idle"]
       ELSE /\ pc' = [pc EXCEPT ![c] = "construct"]
            /\ UNCHANGED calls
    /\ UNCHANGED <<config, instance, constructed, heap, arg, loc, loadVars, risVars, rtVars>>

\* instance = NewX(self.X)
CallConstruct(c) ==
    /\ pc[c] = "construct"
    /\ IF hasConstructor(config.Sources[arg[c].idx])
       THEN /\ heap' = Append(heap, newBackend(config.Sources[arg[c].idx]))
            /\ constructed' = [constructed EXCEPT ![arg[c].idx] = @ + 1]
            /\ loc' = [loc EXCEPT ![c] = Len(heap) + 1]
       ELSE /\ loc' = [loc EXCEPT ![c] = 0]
            /\ UNCHANGED <<heap, constructed>>
    /\ pc' = [pc EXCEPT ![c] = "store"]
    /\ UNCHANGED <<config, instance, arg, calls, loadVars, risVars, rtVars>>

\* self.instance = instance; return instance
CallStore(c) ==
    /\ pc[c] = "store"
    /\ instance' = [instance EXCEPT ![arg[c].idx] = loc[c]]
    /\ calls' = Returned(c, arg[c].id, loc[c])
    /\ pc' = [pc EXCEPT ![c] = "idle"]
    /\ UNCHANGED <<config, constructed, heap, arg, loc, loadVars, risVars, rtVars>>

\* Loaded configurations the registry is run on.
BirdSection == [name |-> N_a_bird, keys |-> [name |-> <<>>, type |-> S_single]]

RegistryFiles ==
    {IniFile("ok", l, AsnUnset, RpkiUnset, <<>>) :
        l \in {<<Section(N_a), Section(N_a_gobgp)>>,
               <<Section(N_a), BirdSection, Section(N_b), Section(N_b_bioris)>>,
               <<Section(N_b), Section(N_b_bioris), Section(N_a), Section(N_a_gobgp)>>}}

SourceIdsAsked == {<<"a">>, <<"b">>, <<"z">>}

NoArg == [id |-> <<>>, idx |-> 0]

InitRegistry ==
    /\ \E f \in RegistryFiles : config = loadConfig(f).config
    /\ instance = [i \in 1..Len(config.Sources) |-> 0]
    /\ constructed = [i \in 1..Len(config.Sources) |-> 0]
    /\ heap = <<>>
    /\ pc = [c \in Callers |-> "idle"]
    /\ arg = [c \in Callers |-> NoArg]
    /\ loc = [c \in Callers |-> 0]
    /\ calls = <<>>
    /\ ParkLoad /\ ParkRis /\ ParkRt

NextRegistry ==
    \E c \in Callers : \E id \in SourceIdsAsked : SourceInstanceById(c, id)

SpecRegistry == InitRegistry /\ [][NextRegistry]_vars

NextRegistryConc ==
    \E c \in Callers :
        \/ \E id \in SourceIdsAsked : CallBegin(c, id)
        \/ CallCheck(c)
        \/ CallConstruct(c)
        \/ CallStore(c)

SpecRegistryConc == InitRegistry /\ [][NextRegistryConc]_vars

(***************************************************************************)
(* What the registry claims speak of.                                      *)
(***************************************************************************)
CallsFor(id) == {n \in 1..Len(calls) : calls[n].id = id}

ObjectsOf(i) ==
    {o \in 1..Len(heap) : heap[o].config.Id = config.Sources[i].Id}

SameInstancePerId ==
    \A m, n \in 1..Len(calls) : calls[m].id = calls[n].id => calls[m].ret = calls[n].ret

(***************************************************************************)
(* C1: calls made one after another: every call for a source identifier    *)
(* returns the instance the first call for it returned, an instance of     *)
(* that source, and the constructor of a source has run exactly once if    *)
(* the source was ever asked for, and never otherwise.                     *)
(***************************************************************************)
C1_SameInstanceBuiltOnce ==
    /\ SameInstancePerId
    /\ \A i \in 1..Len(config.Sources) :
          /\ constructed[i] = IF CallsFor(config.Sources[i].Id) # {} THEN 1 ELSE 0
          /\ Cardinality(ObjectsOf(i)) = constructed[i]
          /\ \A n \in CallsFor(config.Sources[i].Id) :
                /\ calls[n].ret # 0
                /\ calls[n].ret = instance[i]
                /\ heap[calls[n].ret].config.Id = config.Sources[i].Id

\* Source a was asked for three times, source b once.
C1_Witness ==
    /\ Cardinality(CallsFor(<<"a">>)) = 3
    /\ Cardinality(CallsFor(<<"b">>)) = 1
    /\ Len(config.Sources) = 2
    /\ calls[Len(calls)].id = <<"a">>
    /\ calls[Len(calls)].ret # 0

(***************************************************************************)
(* C2: callers running at the same time: under every interleaving the      *)
(* backend of a descriptor is constructed at most once, there is at most   *)
(* one instance of it, and every caller receives the same instance.        *)
(***************************************************************************)
C2_ConstructedAtMostOnce ==
    /\ SameInstancePerId
    /\ \A i \in 1..Len(config.Sources) :
          /\ constructed[i] <= 1
          /\ Cardinality(ObjectsOf(i)) <= 1

(***************************************************************************)
(* The BioRIS adapter.  A connection handle is an index into `conns`,      *)
(* which holds the connectivity state of every handle grpc.Dial returned;  *)
(* 0 is nil.  A Go slice is its items and whether it is nil.               *)
(***************************************************************************)
apiVersion == "v0.1.0"

NilSlice == [nil |-> TRUE, items |-> <<>>]

Slice(items) == [nil |-> FALSE, items |-> items]

getDefaultApiStatus == [Version |-> apiVersion, ResultFromCache |-> FALSE]

\* What an operation gives its caller: kind "ok" (response, nil error), "err"
\* (nil, error) or "panic" (the goroutine panicked).  `client` tells whether
\* getRISClient handed out a client, `remote` lists the remote calls made.
Response(kind, err, client, remote) ==
    [kind |-> kind, err |-> err, client |-> client, remote |-> remote,
     Api |-> getDefaultApiStatus, Imported |-> NilSlice, Filtered |-> NilSlice,
     NotExported |-> NilSlice, Neighbours |-> NilSlice]

closeStale_leak(g, cs) ==
    IF g # 0 /\ cs[g] # "Ready"
    THEN [conn |-> 0, conns |-> cs]
    ELSE [conn |-> g, conns |-> cs]

\* if br.grpcConn != nil { if GetState() != Ready { Close(); br.grpcConn = nil } }
closeStale(g, cs) ==
    IF g # 0 /\ cs[g] # "Ready"
    THEN [conn |-> 0, conns |-> [cs EXCEPT ![g] = "Shutdown"]]
    ELSE [conn |-> g, conns |-> cs]

\* getRISClient: the handle and handles afterwards, whether grpc.Dial was
\* called, and whether an error is returned.  A fresh handle starts Idle.
getRISClient(g, cs, dialOk) ==
    LET a == closeStale(g, cs) IN
    IF a.conn # 0
    THEN [conn |-> a.conn, conns |-> a.conns, dial |-> FALSE, err |-> FALSE]
    ELSE IF dialOk
    THEN [conn |-> Len(a.conns) + 1, conns |-> Append(a.conns, "Idle"),
          dial |-> TRUE, err |-> FALSE]
    ELSE [conn |-> 0, conns |-> a.conns, dial |-> TRUE, err |-> TRUE]

(***************************************************************************)
(* Neighbours.                                                             *)
(***************************************************************************)
\* Status.String() of the remote session state.
StatusString(status) ==
    <<"Disabled", "Idle", "Connect", "Active", "OpenSent", "OpenConfirmed",
      "Established">>[status + 1]

\* bnet.IPFromProtoIP(ip).String()
IPString(ip) == <<"ip", ip>>

neighbourState_raw(state) == state

\* alice only expects "up" as established/up state
neighbourState(state) == IF state = "Established" THEN "up" ELSE state

makeNeighbour(bioNeighbor, now, routeServerId) ==
    [Id              |-> IPString(bioNeighbor.NeighborAddress),
     Address         |-> IPString(bioNeighbor.NeighborAddress),
     Asn             |-> bioNeighbor.PeerAsn,
     State           |-> neighbourState(StatusString(bioNeighbor.Status)),
     Description     |-> bioNeighbor.Description,
     RoutesReceived  |-> bioNeighbor.Stats.RoutesReceived,
     RoutesFiltered  |-> 0,
     RoutesExported  |-> bioNeighbor.Stats.RoutesExported,
     RoutesPreferred |-> 0,
     RoutesAccepted  |-> 0,
     Uptime          |-> IF bioNeighbor.EstablishedSince > 0
                         THEN now - bioNeighbor.EstablishedSince
                         ELSE 0,
     LastError       |-> "",
     RouteServerId   |-> routeServerId]

makeNeighbours(reply, now, routeServerId) ==
    [i \in 1..Len(reply) |-> makeNeighbour(reply[i], now, routeServerId)]

makeNeighbourStatuses(reply) ==
    [i \in 1..Len(reply) |-> [State |-> "unclear if used", Since |-> 0]]

(***************************************************************************)
(* Routes.  A stream is whether DumpRIB opened it, the messages it         *)
(* delivers, and how it ends ("EOF" or "ERR").                             *)
(***************************************************************************)
\* bnet.NewPrefixFromProtoPrefix(pfx).String()
PrefixString(pfx) == <<"pfx", pfx>>

\* bgpPath.AsPath[0] panics on an AS path without segments.
makeAliceRoute(pfx, bgpPath) ==
    IF Len(bgpPath.AsPath) = 0
    THEN [panic |-> TRUE]
    ELSE [panic |-> FALSE,
          route |-> [Id      |-> PrefixString(pfx),
                     Network |-> PrefixString(pfx),
                     Bgp     |-> [AsPath    |-> bgpPath.AsPath[1],
                                  NextHop   |-> IPString(bgpPath.NextHop),
                                  Med       |-> bgpPath.Med,
                                  LocalPref |-> bgpPath.LocalPref]]]

keepPath_all(path) == TRUE

\* if path.Type == brouteapi.Path_BGP
keepPath(path) == path.Type = "BGP"

\* for _, path := range r.Route.Paths, from path j on.
RECURSIVE appendPaths(_, _, _, _)
appendPaths(pfx, paths, j, routes) ==
    IF j > Len(paths) THEN [panic |-> FALSE, routes |-> routes]
    ELSE IF ~keepPath(paths[j]) THEN appendPaths(pfx, paths, j + 1, routes)
    ELSE LET r == makeAliceRoute(pfx, paths[j].BgpPath) IN
         IF r.panic THEN [panic |-> TRUE, routes |-> routes]
         ELSE appendPaths(pfx, paths, j + 1, Append(routes, r.route))

isEOF_always(end) == TRUE

\* if err == io.EOF { break }
isEOF(end) == end = "EOF"

\* The receive loop of one stream, from message i on.
RECURSIVE recvLoop(_, _, _, _, _)
recvLoop(stream, afi, i, routes, remote) ==
    IF i > Len(stream.msgs)
    THEN IF isEOF(stream.end)
         THEN [kind |-> "ok", err |-> "", routes |-> routes,
               remote |-> Append(remote, <<"Recv", afi, stream.end>>)]
         ELSE [kind |-> "err", err |-> "Receive failed", routes |-> routes,
               remote |-> Append(remote, <<"Recv", afi, stream.end>>)]
    ELSE LET a == appendPaths(stream.msgs[i].Pfx, stream.msgs[i].Paths, 1, routes)
             seen == Append(remote, <<"Recv", afi, "msg">>)
         IN  IF a.panic
             THEN [kind |-> "panic", err |-> "index out of range",
                   routes |-> a.routes, remote |-> seen]
             ELSE recvLoop(stream, afi, i + 1, a.routes, seen)

AddressFamilies == <<"IPv4Unicast", "IPv6Unicast">>

\* The loop over the address families, from family k on.
RECURSIVE dumpLoop(_, _, _, _)
dumpLoop(streams, k, routes, remote) ==
    IF k > Len(AddressFamilies)
    THEN [kind |-> "ok", err |-> "", routes |-> routes, remote |-> remote]
    ELSE LET afi == AddressFamilies[k] IN
         IF ~streams[afi].open
         THEN [kind |-> "err", err |-> "Could not dump RIB", routes |-> routes,
               remote |-> Append(remote, <<"DumpRIB", afi, "ERR">>)]
         ELSE LET r == recvLoop(streams[afi], afi, 1, routes,
                                Append(remote, <<"DumpRIB", afi, "ok">>))
              IN  IF r.kind = "ok"
                  THEN dumpLoop(streams, k + 1, r.routes, r.remote)
                  ELSE r

\* getRoutes after getRISClient handed out a client.
getRoutes(streams) ==
    LET d == dumpLoop(streams, 1, <<>>, <<>>) IN
    IF d.kind = "ok"
    THEN [Response("ok", "", TRUE, d.remote) EXCEPT !.Imported = Slice(d.routes),
                                                    !.Api = [Version |-> apiVersion,
                                                             ResultFromCache |-> FALSE]]
    ELSE Response(d.kind, d.err, TRUE, d.remote)

routesFiltered_nil == Response("ok", "", FALSE, <<>>)

\* RoutesFiltered: an empty list, nothing else.
routesFiltered ==
    [Response("ok", "", FALSE, <<>>) EXCEPT !.Filtered = Slice(<<>>)]

\* RoutesNotExported: an empty list, nothing else.
routesNotExported ==
    [Response("ok", "", FALSE, <<>>) EXCEPT !.NotExported = Slice(<<>>)]

(***************************************************************************)
(* The adapter's operations, each a whole call.  A panic ends the process. *)
(***************************************************************************)
Running == risLast.res.kind # "panic"

CanRun == Running /\ risOps < MaxOps

Done(op, neighbourId, res) ==
    /\ risLast' = [op |-> op, arg |-> neighbourId, res |-> res]
    /\ risOps' = risOps + 1

\* The call of getRISClient that opens an operation.
Acquire(c) ==
    /\ c.dial => dialed < MaxDials
    /\ grpcConn' = c.conn
    /\ conns' = c.conns
    /\ dialed' = IF c.dial THEN dialed + 1 ELSE dialed

Neighbours(dialOk, callOk, reply, now) ==
    /\ CanRun
    /\ LET c == getRISClient(grpcConn, conns, dialOk) IN
       /\ Acquire(c)
       /\ IF c.err
          THEN Done("Neighbours", "", Response("err", "Could not get RIS client", FALSE, <<>>))
          ELSE IF ~callOk
          THEN Done("Neighbours", "",
                    Response("err", "Could not get neighbors", TRUE, <<<<"GetNeighbors", "ERR">>>>))
          ELSE Done("Neighbours", "",
                    [Response("ok", "", TRUE, <<<<"GetNeighbors", "ok">>>>)
                        EXCEPT !.Neighbours = Slice(makeNeighbours(reply, now, "rs1"))])
    /\ nbIn' = reply
    /\ UNCHANGED <<rtIn, loadVars, regVars, callVars>>

NeighboursStatus(dialOk, callOk, reply) ==
    /\ CanRun
    /\ LET c == getRISClient(grpcConn, conns, dialOk) IN
       /\ Acquire(c)
       /\ IF c.err
          THEN Done("NeighboursStatus", "",
                    Response("err", "Could not get RIS client", FALSE, <<>>))
          ELSE IF ~callOk
          THEN Done("NeighboursStatus", "",
                    Response("err", "Could not get neighbors", TRUE, <<<<"GetNeighbors", "ERR">>>>))
          ELSE Done("NeighboursStatus", "",
                    [Response("ok", "", TRUE, <<<<"GetNeighbors", "ok">>>>)
                        EXCEPT !.Neighbours = Slice(makeNeighbourStatuses(reply))])
    /\ nbIn' = reply
    /\ UNCHANGED <<rtIn, loadVars, regVars, callVars>>

\* Routes, RoutesReceived and AllRoutes: getRoutes(neighbor) on the streams
\* the remote serves.
RoutesVia(op, neighbourId, dialOk, streams) ==
    /\ CanRun
    /\ LET c == getRISClient(grpcConn, conns, dialOk) IN
       /\ Acquire(c)
       /\ IF c.err
          THEN Done(op, neighbourId, Response("err", "Could not get RIB client", FALSE, <<>>))
          ELSE Done(op, neighbourId, getRoutes(streams))
    /\ rtIn' = streams
    /\ UNCHANGED nbIn
    /\ UNCHANGED <<loadVars, regVars, callVars>>

Routes(neighbourId, dialOk, streams) == RoutesVia("Routes", neighbourId, dialOk, streams)

RoutesReceived(neighbourId, dialOk, streams) ==
    RoutesVia("RoutesReceived", neighbourId, dialOk, streams)

AllRoutes(dialOk, streams) == RoutesVia("AllRoutes", "", dialOk, streams)

RoutesFiltered(neighbourId) ==
    /\ CanRun
    /\ Done("RoutesFiltered", neighbourId, routesFiltered)
    /\ UNCHANGED <<grpcConn, conns, dialed, rtVars, loadVars, regVars, callVars>>

RoutesNotExported(neighbourId) ==
    /\ CanRun
    /\ Done("RoutesNotExported", neighbourId, routesNotExported)
    /\ UNCHANGED <<grpcConn, conns, dialed, rtVars, loadVars, regVars, callVars>>

Status ==
    /\ CanRun
    /\ Done("Status", "", [Response("ok", "", FALSE, <<>>) EXCEPT
                              !.Api = [Version |-> apiVersion, ResultFromCache |-> FALSE,
                                       Backend |-> "BioRIS"]])
    /\ UNCHANGED <<grpcConn, conns, dialed, rtVars, loadVars, regVars, callVars>>

ExpireCaches ==
    /\ CanRun
    /\ Done("ExpireCaches", "", [Response("ok", "", FALSE, <<>>) EXCEPT !.err = "0"])
    /\ UNCHANGED <<grpcConn, conns, dialed, rtVars, loadVars, regVars, callVars>>

\* The connectivity state of the open handle changes under the adapter.
ConnStates == {"Idle", "Connecting", "Ready", "TransientFailure"}

ConnectivityChange(s) ==
    /\ Running
    /\ grpcConn # 0
    /\ conns[grpcConn] # "Shutdown"
    /\ conns[grpcConn] # s
    /\ conns' = [conns EXCEPT ![grpcConn] = s]
    /\ UNCHANGED <<grpcConn, dialed, risOps, risLast, rtVars, loadVars, regVars, callVars>>

(***************************************************************************)
(* What the remote serves.                                                 *)
(***************************************************************************)
NoBgpPath == [AsPath |-> <<>>, NextHop |-> "", Med |-> 0, LocalPref |-> 0]

BgpA == [Type |-> "BGP",
         BgpPath |-> [AsPath |-> <<<<65001>>>>, NextHop |-> "a", Med |-> 0,
                      LocalPref |-> 100]]

BgpB == [Type |-> "BGP",
         BgpPath |-> [AsPath |-> <<<<65002, 65003>>, <<65004>>>>, NextHop |-> "b",
                      Med |-> 5, LocalPref |-> 200]]

\* A BGP path whose AS path has no segment (a locally originated route).
BgpLocal == [Type |-> "BGP",
             BgpPath |-> [AsPath |-> <<>>, NextHop |-> "c", Med |-> 0, LocalPref |-> 100]]

StaticPath == [Type |-> "Static", BgpPath |-> NoBgpPath]

PathLists ==
    {<<>>, <<BgpA>>, <<BgpLocal>>, <<StaticPath>>, <<BgpA, BgpA>>,
     <<BgpB, StaticPath, BgpA>>}

FamilyPrefix(afi) == IF afi = "IPv4Unicast" THEN "10.0.0.0/8" ELSE "2001:db8::/32"

Messages(afi) == {[Pfx |-> FamilyPrefix(afi), Paths |-> pl] : pl \in PathLists}

Streams(afi, n) ==
    {[open |-> FALSE, msgs |-> <<>>, end |-> "EOF"]}
    \cup {[open |-> TRUE, msgs |-> m, end |-> e] :
             m \in UNION {[1..k -> Messages(afi)] : k \in 0..n}, e \in {"EOF", "ERR"}}

\* The two streams deliver at most n messages in total.
StreamPairs(n) ==
    UNION {
        {[IPv4Unicast |-> s4, IPv6Unicast |-> s6] :
            s6 \in Streams("IPv6Unicast", n - Len(s4.msgs))} :
        s4 \in Streams("IPv4Unicast", n)}

Msg(afi, pl) == [Pfx |-> FamilyPrefix(afi), Paths |-> pl]

EndsWith(afi, pl, e) == [open |-> TRUE, msgs |-> <<Msg(afi, pl)>>, end |-> e]

\* The streams met by the adapter when the whole adapter is run.
FewStreamPairs ==
    {[IPv4Unicast |-> s4, IPv6Unicast |-> s6] :
        s4 \in {EndsWith("IPv4Unicast", <<BgpA>>, "EOF"),
                [open |-> FALSE, msgs |-> <<>>, end |-> "EOF"]},
        s6 \in {EndsWith("IPv6Unicast", <<BgpB>>, "EOF"),
                EndsWith("IPv6Unicast", <<BgpB>>, "ERR"),
                EndsWith("IPv6Unicast", <<BgpLocal>>, "EOF")}}

Established == [Status |-> 6, EstablishedSince |-> 400, NeighborAddress |-> "a",
                PeerAsn |-> 65001, Description |-> "peer a",
                Stats |-> [RoutesReceived |-> 2, RoutesExported |-> 1]]

IdlePeer == [Status |-> 1, EstablishedSince |-> 0, NeighborAddress |-> "b",
             PeerAsn |-> 65002, Description |-> "peer b",
             Stats |-> [RoutesReceived |-> 0, RoutesExported |-> 0]]

NeighborReplies == {<<>>, <<IdlePeer, Established>>}

NeighbourIds == {"", "a"}

\* NewBioRIS: the configuration is stored, nothing is dialed.
\* No operation is under way step by step.
ParkCalls == opPc = <<>> /\ frame = <<>>

NewBioRIS ==
    /\ grpcConn = 0
    /\ conns = <<>>
    /\ dialed = 0
    /\ risOps = 0
    /\ risLast = [op |-> "NewBioRIS", arg |-> "", res |-> Response("ok", "", FALSE, <<>>)]

InitRIS ==
    /\ NewBioRIS
    /\ rtIn \in FewStreamPairs
    /\ nbIn = <<>>
    /\ ParkCalls
    /\ ParkLoad /\ ParkReg

NextRIS ==
    \/ \E dialOk, callOk \in BOOLEAN : \E reply \in NeighborReplies :
           Neighbours(dialOk, callOk, reply, 1000)
    \/ \E dialOk, callOk \in BOOLEAN : \E reply \in NeighborReplies :
           NeighboursStatus(dialOk, callOk, reply)
    \/ \E n \in NeighbourIds : \E dialOk \in BOOLEAN : \E s \in FewStreamPairs :
           Routes(n, dialOk, s)
    \/ \E n \in NeighbourIds : \E dialOk \in BOOLEAN : \E s \in FewStreamPairs :
           RoutesReceived(n, dialOk, s)
    \/ \E dialOk \in BOOLEAN : \E s \in FewStreamPairs : AllRoutes(dialOk, s)
    \/ \E n \in NeighbourIds : RoutesFiltered(n)
    \/ \E n \in NeighbourIds : RoutesNotExported(n)
    \/ Status
    \/ ExpireCaches
    \/ \E s \in ConnStates : ConnectivityChange(s)

SpecRIS == InitRIS /\ [][NextRIS]_vars

\* Route retrieval on a fresh adapter, over every pair of streams.
InitRoutes ==
    /\ NewBioRIS
    /\ rtIn \in StreamPairs(MaxRecv)
    /\ nbIn = <<>>
    /\ ParkCalls
    /\ ParkLoad /\ ParkReg

NextRoutes ==
    /\ risOps = 0
    /\ \E dialOk \in BOOLEAN :
           \/ Routes("", dialOk, rtIn)
           \/ RoutesReceived("a", dialOk, rtIn)
           \/ AllRoutes(dialOk, rtIn)

SpecRoutes == InitRoutes /\ [][NextRoutes]_vars

\* The peers the remote may report: every state, with and without a time
\* since which the session is established.
Peer(status, since, address) ==
    [Status |-> status, EstablishedSince |-> since, NeighborAddress |-> address,
     PeerAsn |-> 65001, Description |-> "peer",
     Stats |-> [RoutesReceived |-> 2, RoutesExported |-> 1]]

Peers == {Peer(st, since, a) : st \in 0..6, since \in {0, 400}, a \in {"a", "b"}}

PeerLists == UNION {[1..n -> Peers] : n \in 0..MaxPeers}

\* Neighbours on a fresh adapter, over every list of peers.
InitNeighbours ==
    /\ NewBioRIS
    /\ rtIn = NotLoaded
    /\ nbIn \in PeerLists
    /\ ParkCalls
    /\ ParkLoad /\ ParkReg

NextNeighbours ==
    /\ risOps = 0
    /\ \E dialOk, callOk \in BOOLEAN : Neighbours(dialOk, callOk, nbIn, 1000)

SpecNeighbours == InitNeighbours /\ [][NextNeighbours]_vars

(***************************************************************************)
(* Operations of several callers on one adapter, statement by statement:   *)
(* getRISClient has no lock, so the reads and writes of br.grpcConn of     *)
(* different callers interleave.                                           *)
(***************************************************************************)
NoFrame == [conn |-> 0, risclient |-> 0]

Crashed == \E c \in Callers : opPc[c] = "panic"

OpsInFlight == Cardinality({c \in Callers : opPc[c] \notin {"idle", "panic"}})

At(c, at) == ~Crashed /\ opPc[c] = at

Goto(c, to) == opPc' = [opPc EXCEPT ![c] = to]

\* A caller enters an operation that needs the client and calls getRISClient.
OpBegin(c) ==
    /\ At(c, "idle")
    /\ risOps + OpsInFlight < MaxOps
    /\ Goto(c, "check")
    /\ frame' = [frame EXCEPT ![c] = NoFrame]
    /\ UNCHANGED <<grpcConn, conns, dialed, risOps, risLast, rtVars, loadVars, regVars>>

\* if br.grpcConn != nil
RisCheck(c) ==
    /\ At(c, "check")
    /\ Goto(c, IF grpcConn # 0 THEN "state" ELSE "isnil")
    /\ UNCHANGED <<grpcConn, conns, dialed, risOps, risLast, frame, rtVars, loadVars, regVars>>

\* if br.grpcConn.GetState() != connectivity.Ready: the field is read again,
\* and a nil handle ends the process.
RisState(c) ==
    /\ At(c, "state")
    /\ Goto(c, IF grpcConn = 0 THEN "panic"
               ELSE IF conns[grpcConn] # "Ready" THEN "close"
               ELSE "isnil")
    /\ UNCHANGED <<grpcConn, conns, dialed, risOps, risLast, frame, rtVars, loadVars, regVars>>

\* br.grpcConn.Close(): the field is read again.
RisClose(c) ==
    /\ At(c, "close")
    /\ IF grpcConn = 0
       THEN Goto(c, "panic") /\ UNCHANGED conns
       ELSE Goto(c, "drop") /\ conns' = [conns EXCEPT ![grpcConn] = "Shutdown"]
    /\ UNCHANGED <<grpcConn, dialed, risOps, risLast, frame, rtVars, loadVars, regVars>>

\* br.grpcConn = nil
RisDrop(c) ==
    /\ At(c, "drop")
    /\ grpcConn' = 0
    /\ Goto(c, "isnil")
    /\ UNCHANGED <<conns, dialed, risOps, risLast, frame, rtVars, loadVars, regVars>>

\* if br.grpcConn == nil
RisIsNil(c) ==
    /\ At(c, "isnil")
    /\ Goto(c, IF grpcConn = 0 THEN "dial" ELSE "client")
    /\ UNCHANGED <<grpcConn, conns, dialed, risOps, risLast, frame, rtVars, loadVars, regVars>>

\* conn, err := grpc.Dial(..); on an error the operation returns it.
RisDial(c, dialOk) ==
    /\ At(c, "dial")
    /\ dialed < MaxDials
    /\ dialed' = dialed + 1
    /\ IF dialOk
       THEN /\ conns' = Append(conns, "Idle")
            /\ frame' = [frame EXCEPT ![c].conn = Len(conns) + 1]
            /\ Goto(c, "store")
            /\ UNCHANGED risOps
       ELSE /\ Goto(c, "idle")
            /\ risOps' = risOps + 1
            /\ UNCHANGED <<conns, frame>>
    /\ UNCHANGED <<grpcConn, risLast, rtVars, loadVars, regVars>>

\* br.grpcConn = conn
RisStore(c) ==
    /\ At(c, "store")
    /\ grpcConn' = frame[c].conn
    /\ Goto(c, "client")
    /\ UNCHANGED <<conns, dialed, risOps, risLast, frame, rtVars, loadVars, regVars>>

\* risclient := pb.NewRoutingInformationServiceClient(br.grpcConn): the
\* client wraps whatever the field holds now; the remote call starts.
RisClient(c) ==
    /\ At(c, "client")
    /\ frame' = [frame EXCEPT ![c].risclient = grpcConn]
    /\ Goto(c, "call")
    /\ UNCHANGED <<grpcConn, conns, dialed, risOps, risLast, rtVars, loadVars, regVars>>

\* The remote call or stream of the operation ends; a client over a nil
\* handle ends the process.
CallEnd(c) ==
    /\ At(c, "call")
    /\ IF frame[c].risclient = 0
       THEN Goto(c, "panic") /\ UNCHANGED risOps
       ELSE Goto(c, "idle") /\ risOps' = risOps + 1
    /\ UNCHANGED <<grpcConn, conns, dialed, risLast, frame, rtVars, loadVars, regVars>>

\* The stored connection changes its connectivity state.
StateChange(s) ==
    /\ ~Crashed
    /\ ConnectivityChange(s)

InitRISConc ==
    /\ NewBioRIS
    /\ opPc = [c \in Callers |-> "idle"]
    /\ frame = [c \in Callers |-> NoFrame]
    /\ rtIn = NotLoaded
    /\ nbIn = <<>>
    /\ ParkLoad /\ ParkReg

NextRISConc ==
    \/ \E c \in Callers : OpBegin(c)
    \/ \E c \in Callers : RisCheck(c)
    \/ \E c \in Callers : RisState(c)
    \/ \E c \in Callers : RisClose(c)
    \/ \E c \in Callers : RisDrop(c)
    \/ \E c \in Callers : RisIsNil(c)
    \/ \E c \in Callers : \E dialOk \in BOOLEAN : RisDial(c, dialOk)
    \/ \E c \in Callers : RisStore(c)
    \/ \E c \in Callers : RisClient(c)
    \/ \E c \in Callers : CallEnd(c)
    \/ \E s \in ConnStates : StateChange(s)

SpecRISConc == InitRISConc /\ [][NextRISConc]_vars

(***************************************************************************)
(* What the adapter claims speak of.                                       *)
(***************************************************************************)
NeedsClient == {"Neighbours", "NeighboursStatus", "Routes", "RoutesReceived", "AllRoutes"}

OpenHandles == {h \in 1..Len(conns) : conns[h] # "Shutdown"}

\* Every handle but the stored one is closed, the stored one is not, and a
\* client that was handed out rests on a stored handle.
OneLiveHandle ==
    /\ OpenHandles \subseteq {grpcConn}
    /\ grpcConn # 0 => grpcConn \in OpenHandles
    /\ risLast.res.client => grpcConn # 0
    /\ risOps = 0 => (dialed = 0 /\ conns = <<>> /\ grpcConn = 0)

\* An operation that needs the client: a ready handle is kept as it is and
\* nothing is dialed; any other handle is closed and dropped and one dial is
\* made, whose handle is stored when it succeeds.
AcquireStep ==
    (risOps' = risOps + 1 /\ risLast'.op \in NeedsClient) =>
        IF grpcConn # 0 /\ conns[grpcConn] = "Ready"
        THEN /\ grpcConn' = grpcConn
             /\ conns' = conns
             /\ dialed' = dialed
             /\ risLast'.res.client
        ELSE /\ dialed' = dialed + 1
             /\ grpcConn # 0 => (conns'[grpcConn] = "Shutdown" /\ grpcConn' # grpcConn)
             /\ risLast'.res.client =>
                   /\ Len(conns') = Len(conns) + 1
                   /\ grpcConn' = Len(conns')
                   /\ conns'[grpcConn'] # "Shutdown"
             /\ ~risLast'.res.client =>
                   /\ grpcConn' = 0
                   /\ Len(conns') = Len(conns)
                   /\ risLast'.res.kind = "err"

(***************************************************************************)
(* C3: one caller: no dial at construction; an operation that needs the    *)
(* client closes and drops a handle that is not ready before it dials, and *)
(* reuses a ready handle without closing it or dialing; after a successful *)
(* acquisition the adapter stores exactly one handle, which is not closed, *)
(* and no other handle is left open.                                       *)
(***************************************************************************)
C3_Lifecycle == []OneLiveHandle /\ [][AcquireStep]_vars

\* The first handle went stale and was closed, the second is stored and ready.
C3_Witness ==
    /\ Len(conns) = 2
    /\ conns[1] = "Shutdown"
    /\ grpcConn = 2
    /\ conns[2] = "Ready"
    /\ dialed = 2
    /\ risOps = 3
    /\ risLast.op = "Neighbours"
    /\ risLast.res.client

\* The routes a retrieval should give: one per BGP path, by what names it.
RouteKey(route) ==
    <<route.Network, route.Bgp.AsPath, route.Bgp.NextHop, route.Bgp.Med,
      route.Bgp.LocalPref>>

PathKey(pfx, path) ==
    <<PrefixString(pfx),
      IF path.BgpPath.AsPath = <<>> THEN <<>> ELSE path.BgpPath.AsPath[1],
      IPString(path.BgpPath.NextHop), path.BgpPath.Med, path.BgpPath.LocalPref>>

RECURSIVE BgpKeysOfPaths(_, _)
BgpKeysOfPaths(pfx, paths) ==
    IF paths = <<>> THEN <<>>
    ELSE (IF Head(paths).Type = "BGP" THEN <<PathKey(pfx, Head(paths))>> ELSE <<>>)
             \o BgpKeysOfPaths(pfx, Tail(paths))

RECURSIVE BgpKeysOfStream(_)
BgpKeysOfStream(msgs) ==
    IF msgs = <<>> THEN <<>>
    ELSE BgpKeysOfPaths(Head(msgs).Pfx, Head(msgs).Paths) \o BgpKeysOfStream(Tail(msgs))

CleanEnd(stream) == stream.open /\ stream.end = "EOF"

Retrieved == risOps = 1 /\ risLast.op \in {"Routes", "RoutesReceived", "AllRoutes"}
                 /\ risLast.res.client

RoutesInOrder ==
    /\ risLast.res.kind = "ok"
    /\ ~risLast.res.Imported.nil
    /\ [i \in 1..Len(risLast.res.Imported.items) |-> RouteKey(risLast.res.Imported.items[i])]
          = BgpKeysOfStream(rtIn.IPv4Unicast.msgs) \o BgpKeysOfStream(rtIn.IPv6Unicast.msgs)

(***************************************************************************)
(* C4: when both streams end cleanly, route retrieval returns exactly one  *)
(* route per BGP path: the IPv4 routes before the IPv6 routes, in stream   *)
(* order and path order, other paths left out, nothing sorted, dropped or  *)
(* de-duplicated.                                                          *)
(***************************************************************************)
C4_OneRoutePerBgpPath ==
    (Retrieved /\ CleanEnd(rtIn.IPv4Unicast) /\ CleanEnd(rtIn.IPv6Unicast)) => RoutesInOrder

(***************************************************************************)
(* C5: a clean end of stream is never reported as an error; a failure to   *)
(* open a stream or a receive error makes the retrieval return an error    *)
(* and no route list, and no remote call follows the failure.              *)
(***************************************************************************)
C5_FailureAbortsRetrieval ==
    Retrieved =>
        LET res == risLast.res
            last == res.remote[Len(res.remote)]
        IN  /\ \A k \in 1..Len(res.remote) :
                  res.remote[k][3] = "ERR" =>
                      /\ res.kind = "err"
                      /\ res.Imported.nil
                      /\ k = Len(res.remote)
            /\ res.kind = "err" =>
                  /\ Len(res.remote) > 0
                  /\ last[3] = "ERR"
                  /\ res.err = IF last[1] = "DumpRIB" THEN "Could not dump RIB"
                               ELSE "Receive failed"
            /\ (CleanEnd(rtIn.IPv4Unicast) /\ CleanEnd(rtIn.IPv6Unicast)) => res.kind # "err"
            /\ ~rtIn.IPv4Unicast.open =>
                  /\ res.kind = "err"
                  /\ res.remote = <<<<"DumpRIB", "IPv4Unicast", "ERR">>>>
            /\ (rtIn.IPv4Unicast.open /\ rtIn.IPv4Unicast.end = "ERR" /\ res.kind # "panic") =>
                  /\ res.kind = "err"
                  /\ last = <<"Recv", "IPv4Unicast", "ERR">>
            /\ (CleanEnd(rtIn.IPv4Unicast) /\ ~CleanEnd(rtIn.IPv6Unicast) /\ res.kind # "panic") =>
                  /\ res.kind = "err"
                  /\ last[2] = "IPv6Unicast"

\* The IPv4 stream gave a BGP route and ended cleanly, the IPv6 stream gave
\* one and then failed: an error, and no routes.
C5_Witness ==
    /\ Retrieved
    /\ CleanEnd(rtIn.IPv4Unicast)
    /\ BgpKeysOfStream(rtIn.IPv4Unicast.msgs) # <<>>
    /\ rtIn.IPv6Unicast.open
    /\ rtIn.IPv6Unicast.end = "ERR"
    /\ BgpKeysOfStream(rtIn.IPv6Unicast.msgs) # <<>>
    /\ risLast.res.kind = "err"
    /\ risLast.res.err = "Receive failed"
    /\ risLast.res.Imported.nil

(***************************************************************************)
(* C6: RoutesFiltered and RoutesNotExported return an empty list that is   *)
(* not nil for their category and no error, for every neighbour filter and *)
(* in every state of the connection, and leave the connection handle as it *)
(* is: no dial, no close, no remote call.                                  *)
(***************************************************************************)
C6_EmptyAndUntouched ==
    [][(risOps' = risOps + 1 /\ risLast'.op \in {"RoutesFiltered", "RoutesNotExported"}) =>
          /\ risLast'.res.kind = "ok"
          /\ risLast'.res.err = ""
          /\ risLast'.res.remote = <<>>
          /\ risLast'.res.Imported.nil
          /\ IF risLast'.op = "RoutesFiltered"
             THEN risLast'.res.Filtered = Slice(<<>>) /\ risLast'.res.NotExported.nil
             ELSE risLast'.res.NotExported = Slice(<<>>) /\ risLast'.res.Filtered.nil
          /\ grpcConn' = grpcConn
          /\ conns' = conns
          /\ dialed' = dialed]_vars

\* RoutesFiltered answered while the stored handle was in transient failure.
C6_Witness ==
    /\ risLast.op = "RoutesFiltered"
    /\ risLast.arg = "a"
    /\ grpcConn # 0
    /\ conns[grpcConn] = "TransientFailure"
    /\ risLast.res.Filtered = Slice(<<>>)

(***************************************************************************)
(* What the claims speak of, read off the file itself.                     *)
(***************************************************************************)
CountChar(s, c) == Cardinality({i \in 1..Len(s) : s[i] = c})

Loaded == cfgOut.kind # "none" /\ cfgIn.file = "ok"

\* A source base section: "source.<id>", one dot in all.
IsBase(s) == HasPrefix(s.name, S_source \o <<".">>) /\ CountChar(s.name, ".") = 1

BaseIdx == {i \in 1..Len(cfgIn.sections) : IsBase(cfgIn.sections[i])}

ChildIdx(i) ==
    {j \in 1..Len(cfgIn.sections) :
        HasPrefix(cfgIn.sections[j].name, cfgIn.sections[i].name \o <<".">>)}

TheChild(i) == cfgIn.sections[CHOOSE j \in ChildIdx(i) : TRUE]

Offending(i) == i \in BaseIdx /\ Cardinality(ChildIdx(i)) # 1

BasesBefore(i) == Cardinality({j \in BaseIdx : j < i})

KeywordTag(name) ==
    IF HasSuffix(name, S_birdwatcher) THEN 1
    ELSE IF HasSuffix(name, S_gobgp) THEN 2
    ELSE IF HasSuffix(name, S_bioris) THEN 3
    ELSE 0

BadBirdwatcher(i) ==
    /\ KeywordTag(TheChild(i).name) = 1
    /\ TheChild(i).keys.type \notin {S_single, S_multi}

\* The loader takes base section i: one child, a recognized backend, and a
\* known birdwatcher type.
Accepted(i) ==
    /\ Cardinality(ChildIdx(i)) = 1
    /\ KeywordTag(TheChild(i).name) # 0
    /\ ~BadBirdwatcher(i)

FirstRefused == CHOOSE i \in BaseIdx : ~Accepted(i) /\ \A j \in BaseIdx : j < i => Accepted(j)

SourceIdOf(i) == SubSeq(cfgIn.sections[i].name, 8, Len(cfgIn.sections[i].name))

C8_Original ==
    Loaded =>
        \A i \in BaseIdx :
            (Cardinality(ChildIdx(i)) = 1 /\ Len(cfgOut.scan.sources) >= BasesBefore(i)) =>
                IF KeywordTag(TheChild(i).name) # 0
                THEN /\ Len(cfgOut.scan.sources) > BasesBefore(i)
                     /\ cfgOut.scan.sources[BasesBefore(i) + 1].Type
                            = KeywordTag(TheChild(i).name)
                     /\ cfgOut.scan.sources[BasesBefore(i) + 1].Id = SourceIdOf(i)
                ELSE /\ cfgOut.kind = "error"
                     /\ cfgOut.msg = "has an unsupported backend"
                     /\ cfgOut.section = cfgIn.sections[i].name

(***************************************************************************)
(* C8 as amended: with a gobgp or bioris suffix construction succeeds      *)
(* whatever the keys are; with a birdwatcher suffix it succeeds exactly    *)
(* when the section's type key is single_table or multi_table, and         *)
(* otherwise log.Fatal ends the process; any other suffix gives the        *)
(* "unsupported backend" error naming the source.                          *)
(***************************************************************************)
C8_BackendBySuffix ==
    Loaded =>
        \A i \in BaseIdx :
            (Cardinality(ChildIdx(i)) = 1 /\ Len(cfgOut.scan.sources) >= BasesBefore(i)) =>
                IF KeywordTag(TheChild(i).name) = 0
                THEN /\ cfgOut.kind = "error"
                     /\ cfgOut.msg = "has an unsupported backend"
                     /\ cfgOut.section = cfgIn.sections[i].name
                     /\ Len(cfgOut.scan.sources) = BasesBefore(i)
                ELSE IF BadBirdwatcher(i)
                THEN /\ cfgOut.kind = "fatal"
                     /\ cfgOut.section = cfgIn.sections[i].name
                     /\ Len(cfgOut.scan.sources) = BasesBefore(i)
                ELSE /\ Len(cfgOut.scan.sources) > BasesBefore(i)
                     /\ cfgOut.scan.sources[BasesBefore(i) + 1].Type
                            = KeywordTag(TheChild(i).name)
                     /\ cfgOut.scan.sources[BasesBefore(i) + 1].Id = SourceIdOf(i)

\* A birdwatcher source and a bioris source, both constructed.
C8_Witness ==
    /\ Loaded
    /\ cfgOut.kind = "config"
    /\ Len(cfgOut.config.Sources) = 2
    /\ {cfgOut.config.Sources[n].Type : n \in 1..2} = {SOURCE_BIRDWATCHER, SOURCE_BIORIS}

(***************************************************************************)
(* RPKI: the claims' own reading of the configured value.                  *)
(***************************************************************************)
RpkiTokens == UNION {[1..n -> {"5"}] : n \in 0..MaxStrLen}

AsnText ==
    IF ~cfgIn.asn.set THEN <<"0">>
    ELSE IF cfgIn.asn.val = 9 THEN <<"9">>
    ELSE <<"6", "5", "0", "0", "0">>

InvalidConfigured == Len(cfgIn.rpki.Invalid) > 0

ColonTokens == CountChar(cfgIn.rpki.Invalid[1], ":") + 1

UiReached == Loaded /\ cfgOut.scan.kind = "ok"

RpkiFailed ==
    /\ cfgOut.kind = "error"
    /\ cfgOut.from = "getUiConfig"
    /\ cfgOut.msg = "Unexpected rpki.Invalid configuration"
    /\ ~cfgOut.config.loaded

C9_Derived ==
    /\ (UiReached /\ ~InvalidConfigured) =>
          /\ cfgOut.kind = "config"
          /\ cfgOut.config.Ui.Rpki.Invalid = <<AsnText, S_1000, <<"4">>, <<"*">>>>
    /\ (UiReached /\ InvalidConfigured) =>
          \A a, b, x, y \in RpkiTokens :
              cfgIn.rpki.Invalid[1] = a \o <<":">> \o b \o <<":">> \o x \o <<"-">> \o y =>
                  /\ cfgOut.kind = "config"
                  /\ cfgOut.config.Ui.Rpki.Invalid = <<a, b, x, y>>

(***************************************************************************)
(* C9 as stated: without an invalid key the derived list is                *)
(* [A, "1000", "4", "*"] (A = "0" without a local ASN); a:b:x-y gives      *)
(* [a, b, x, y]; a value whose number of colon-separated tokens is other   *)
(* than 3 makes the derivation, the UI-config builder and the load fail.   *)
(***************************************************************************)
C9_Original ==
    /\ C9_Derived
    /\ (Loaded /\ InvalidConfigured /\ ColonTokens # 3) =>
          /\ cfgOut.kind # "config"
          /\ UiReached => RpkiFailed

(***************************************************************************)
(* C9 as amended: as stated, but the derivation fails exactly for a value  *)
(* with fewer than 3 colon-separated tokens; with more than 3 it succeeds, *)
(* the split stopping at 3 parts and the third keeping the rest.           *)
(***************************************************************************)
C9_FailsBelowThreeTokens ==
    /\ C9_Derived
    /\ (Loaded /\ InvalidConfigured /\ ColonTokens < 3) =>
          /\ cfgOut.kind # "config"
          /\ UiReached => RpkiFailed
    /\ (UiReached /\ InvalidConfigured /\ ColonTokens >= 3) =>
          /\ cfgOut.kind = "config"
          /\ Len(cfgOut.config.Ui.Rpki.Invalid) >= 3

\* invalid = 5:5:5-5 was loaded.
C9_Witness ==
    /\ UiReached
    /\ InvalidConfigured
    /\ cfgIn.rpki.Invalid[1] = <<"5", ":", "5", ":", "5", "-", "5">>
    /\ cfgOut.config.Ui.Rpki.Invalid = <<<<"5">>, <<"5">>, <<"5">>, <<"5">>>>

(***************************************************************************)
(* Communities: the claims' own reading of the body.                       *)
(***************************************************************************)
BodyLines == Split(cfgIn.bgp_communities, "\n")

WellFormed(i) == \E n \in 1..Len(BodyLines[i]) : BodyLines[i][n] = "="

KeyOf(i) == TrimSpace(SubSeq(BodyLines[i], 1, IndexOf(BodyLines[i], "=") - 1))

LabelOf(i) ==
    TrimSpace(SubSeq(BodyLines[i], IndexOf(BodyLines[i], "=") + 1, Len(BodyLines[i])))

Setters(k) == {i \in 1..Len(BodyLines) : WellFormed(i) /\ KeyOf(i) = k}

LastSetter(k) == CHOOSE i \in Setters(k) : \A j \in Setters(k) : j <= i

(***************************************************************************)
(* C10: merging a body into the well-known defaults gives exactly the      *)
(* default keys plus the keys of the well-formed lines, each labelled by   *)
(* the last well-formed line that sets it and otherwise by its default; a  *)
(* line without "=" changes nothing and the lines after it still count.    *)
(***************************************************************************)
C10_Merge ==
    (Loaded /\ cfgOut.kind = "config") =>
        LET res == cfgOut.config.Ui.BgpCommunities IN
        /\ DOMAIN res = DOMAIN MakeWellKnownBgpCommunities
                          \cup {KeyOf(i) : i \in {n \in 1..Len(BodyLines) : WellFormed(n)}}
        /\ \A k \in DOMAIN res :
              res[k] = IF Setters(k) # {}
                       THEN LabelOf(LastSetter(k))
                       ELSE MakeWellKnownBgpCommunities[k]

\* A line without "=", then a line that relabels a default key, and a new key.
C10_Witness ==
    /\ Loaded
    /\ cfgOut.kind = "config"
    /\ Len(BodyLines) = 3
    /\ ~WellFormed(1) /\ BodyLines[1] # <<>>
    /\ WellFormed(2) /\ KeyOf(2) = C_blackhole
    /\ cfgOut.config.Ui.BgpCommunities[C_blackhole] = <<"y">>
    /\ K_new \in DOMAIN cfgOut.config.Ui.BgpCommunities

(***************************************************************************)
(* C13: whenever the RPKI derivation succeeds, the derived invalid         *)
(* classification has two fixed tokens and one or two trailing tokens, 3   *)
(* or 4 in all, for every configured value of the invalid key, a third     *)
(* token with more than one '-' included.                                  *)
(***************************************************************************)
C13_ThreeOrFourTokens ==
    (UiReached /\ cfgOut.kind = "config") =>
        Len(cfgOut.config.Ui.Rpki.Invalid) \in {3, 4}

(***************************************************************************)
(* C15: route retrieval ends with a returned result or a returned error    *)
(* and never with a crash of the process, for every content of the         *)
(* streams, a BGP path whose AS path has no segment included: such a path  *)
(* gives a Route with an empty AS path.                                    *)
(***************************************************************************)
C15_NeverCrashes ==
    Retrieved =>
        /\ risLast.res.kind \in {"ok", "err"}
        /\ (CleanEnd(rtIn.IPv4Unicast) /\ CleanEnd(rtIn.IPv6Unicast)) =>
              /\ risLast.res.kind = "ok"
              /\ Len(risLast.res.Imported.items)
                    = Len(BgpKeysOfStream(rtIn.IPv4Unicast.msgs))
                         + Len(BgpKeysOfStream(rtIn.IPv6Unicast.msgs))

NeighboursAnswered ==
    risOps = 1 /\ risLast.op = "Neighbours" /\ risLast.res.kind = "ok"

(***************************************************************************)
(* C12: Neighbours returns one neighbour per remote peer, in remote order; *)
(* its state is "up" exactly when the remote state is "Established" and    *)
(* the remote spelling otherwise; its uptime is zero whenever the remote   *)
(* established-since value is not positive; its filtered, preferred and    *)
(* accepted route counters are zero.                                       *)
(***************************************************************************)
C12_NeighbourMapping ==
    NeighboursAnswered =>
        LET out == risLast.res.Neighbours IN
        /\ ~out.nil
        /\ Len(out.items) = Len(nbIn)
        /\ \A i \in 1..Len(nbIn) :
              LET n == out.items[i]
                  peer == nbIn[i]
                  remote == StatusString(peer.Status)
              IN  /\ n.Id = IPString(peer.NeighborAddress)
                  /\ n.Address = IPString(peer.NeighborAddress)
                  /\ (n.State = "up") = (remote = "Established")
                  /\ remote # "Established" => n.State = remote
                  /\ peer.EstablishedSince <= 0 => n.Uptime = 0
                  /\ n.RoutesFiltered = 0
                  /\ n.RoutesPreferred = 0
                  /\ n.RoutesAccepted = 0

\* An established peer without a time of establishment, then an idle peer.
C12_Witness ==
    /\ NeighboursAnswered
    /\ Len(nbIn) = 2
    /\ nbIn[1].Status = 6 /\ nbIn[1].EstablishedSince = 0
    /\ nbIn[2].Status = 1 /\ nbIn[2].NeighborAddress = "b"
    /\ risLast.res.Neighbours.items[1].State = "up"
    /\ risLast.res.Neighbours.items[1].Uptime = 0
    /\ risLast.res.Neighbours.items[2].State = "Idle"
    /\ risLast.res.Neighbours.items[2].Address = IPString("b")

\* The step is an operation that needs the client.
ClientStep == risOps' = risOps + 1 /\ risLast'.op \in NeedsClient

\* The operation of the step failed at the dial.
DialFailed ==
    /\ risLast'.res.kind = "err"
    /\ ~risLast'.res.client

\* In the step the remote was reached and every call answered without error.
RemoteAnswers ==
    /\ risLast'.res.client
    /\ \A k \in 1..Len(risLast'.res.remote) :
          risLast'.res.remote[k][Len(risLast'.res.remote[k])] # "ERR"

NoRetryStep ==
    ClientStep =>
        /\ dialed' \in {dialed, dialed + 1}
        /\ DialFailed =>
              /\ dialed' = dialed + 1
              /\ grpcConn' = 0
              /\ OpenHandles' = {}
              /\ risLast'.res.remote = <<>>

RecoverStep ==
    (ClientStep /\ risLast.res.kind = "err" /\ RemoteAnswers) =>
        /\ risLast'.res.kind = "ok"
        /\ risLast'.res.err = ""
        /\ grpcConn' # 0

(***************************************************************************)
(* C11: a failed operation does not poison the adapter: a dial failure is  *)
(* returned without retry, at most one dial per operation, and leaves no   *)
(* handle stored; the operation after a failed one acquires the client     *)
(* afresh and succeeds whenever the remote is reachable and answers        *)
(* without error.                                                          *)
(***************************************************************************)
C11_NoPoison == [][NoRetryStep /\ RecoverStep]_vars

(***************************************************************************)
(* C14: with several operations running at the same time on one adapter,   *)
(* under every interleaving of their check, close, dial and store steps,   *)
(* no caller has a remote call in progress on a connection handle that     *)
(* another caller has closed.                                              *)
(***************************************************************************)
C14_NoCallOnClosedHandle ==
    \A c \in Callers :
        (opPc[c] = "call" /\ frame[c].risclient # 0) =>
            conns[frame[c].risclient] # "Shutdown"

====
